---------------------------- MODULE Spec2Model ----------------------------
(***************************************************************************)
(* A model of AstrBot's task supervisor (astrbot/bootstrap.py: run and     *)
(* handle_task) and of its plugin manager (util/plugin_util.py: discovery, *)
(* plugin_reload, install_plugin, update_plugin, uninstall_plugin and      *)
(* remove_dir).                                                            *)
(*                                                                         *)
(* The two halves share no state.  SpecSup runs the supervisor, Spec runs  *)
(* the plugin manager; each leaves the other half's variables alone.       *)
(* SpecDiscover runs one call of get_modules on a directory of files.      *)
(***************************************************************************)
EXTENDS Integers, Sequences, FiniteSets, TLC

VARIABLES
    \* ---- task supervisor (bootstrap.py) ----
    task,        \* task[u]: the asyncio.Task of unit u: its state and result
    cancelReq,   \* cancelReq[u]: somebody called task.cancel() on unit u
    wrap,        \* wrap[u]: the handle_task(task) coroutine wrapping unit u
    log,         \* what handle_task wrote to the logger, in order
    run,         \* AstrBotBootstrap.run at "await asyncio.gather(*tasks)"
    \* ---- plugin manager (plugin_util.py) ----
    storeRoot,   \* which plugin store directory exists (the first that does)
    entryFile,   \* entryFile[d]: the entry file the repository of plugin d ships
    disk,        \* disk[d]: the plugin directory d of the store
    sysmods,     \* sys.modules: the code each imported plugin module holds
    registry,    \* cached_plugins
    \* ---- one call of get_modules(path) (plugin_util.py) ----
    tree,        \* tree[d]: the entry d of the directory path: its kind, its files
    dirs,        \* what the loop over os.listdir(path) has yet to visit
    modules      \* the descriptors get_modules has appended so far

supVars == <<task, cancelReq, wrap, log, run>>
discVars == <<tree, dirs, modules>>
plugVars == <<storeRoot, entryFile, disk, sysmods, registry, tree, dirs, modules>>
vars == <<task, cancelReq, wrap, log, run, storeRoot, entryFile, disk, sysmods, registry,
          tree, dirs, modules>>

None == "None"

-----------------------------------------------------------------------------
(***************************************************************************)
(*                          THE TASK SUPERVISOR                            *)
(***************************************************************************)

\* How many units run() supervises: metrics uploader, dashboard, platforms,
\* extension tasks.
NumUnits == 3
Units == 1 .. NumUnits

\* What a unit may return.
Results == {"r1", "r2"}

Terminal == {"done", "cancelled", "failed"}

\* A unit that has not ended; "failed" is a unit that raised an Exception.
PendingTask == [state |-> "pending", result |-> None]

\* handle_task before its task has ended.
Awaiting == [pc |-> "awaiting", ret |-> None]

\* handle_task(task), resumed once the awaited task t (of name u) has ended:
\* the value it returns, or that it raises, and what it logs.
HandleTaskRethrowsFailure(t, u) ==
    CASE t.state = "done" ->
            [pc |-> "returned", ret |-> t.result, logs |-> << >>]
      [] t.state = "cancelled" ->
            [pc |-> "returned", ret |-> None, logs |-> << <<"info", "cancelled", u>> >>]
      [] t.state = "failed" ->
            [pc |-> "raised", ret |-> None,
             logs |-> << <<"error", "traceback", u>>, <<"error", "failed", u>> >>]

HandleTaskRethrowsCancel(t, u) ==
    CASE t.state = "done" ->
            [pc |-> "returned", ret |-> t.result, logs |-> << >>]
      [] t.state = "cancelled" ->
            [pc |-> "raised", ret |-> None, logs |-> << >>]
      [] t.state = "failed" ->
            [pc |-> "returned", ret |-> None,
             logs |-> << <<"error", "traceback", u>>, <<"error", "failed", u>> >>]

HandleTask(t, u) ==
    CASE t.state = "done" ->
            [pc |-> "returned", ret |-> t.result, logs |-> << >>]
      [] t.state = "cancelled" ->
            [pc |-> "returned", ret |-> None, logs |-> << <<"info", "cancelled", u>> >>]
      [] t.state = "failed" ->
            [pc |-> "returned", ret |-> None,
             logs |-> << <<"error", "traceback", u>>, <<"error", "failed", u>> >>]

\* asyncio.gather(*tasks) without return_exceptions: the first child that
\* raises ends the gather with that exception at once; otherwise it ends
\* when every child has returned.
GatherFirstCompleted(w) ==
    IF \E u \in Units : w[u].pc = "raised" THEN "raised"
    ELSE IF \E u \in Units : w[u].pc = "returned" THEN "returned"
    ELSE "gathering"

Gather(w) ==
    IF \E u \in Units : w[u].pc = "raised" THEN "raised"
    ELSE IF \A u \in Units : w[u].pc = "returned" THEN "returned"
    ELSE "gathering"

\* The unit's coroutine returns r.
TaskCompletes(u, r) ==
    /\ task[u].state = "pending"
    /\ task' = [task EXCEPT ![u] = [state |-> "done", result |-> r]]
    /\ UNCHANGED <<cancelReq, wrap, log, run>>
    /\ UNCHANGED plugVars

\* The unit's coroutine raises an Exception.
TaskFails(u) ==
    /\ task[u].state = "pending"
    /\ task' = [task EXCEPT ![u] = [state |-> "failed", result |-> None]]
    /\ UNCHANGED <<cancelReq, wrap, log, run>>
    /\ UNCHANGED plugVars

\* Somebody outside the supervisor cancels the unit (task.cancel()).
CancelRequested(u) ==
    /\ task[u].state = "pending"
    /\ ~cancelReq[u]
    /\ cancelReq' = [cancelReq EXCEPT ![u] = TRUE]
    /\ UNCHANGED <<task, wrap, log, run>>
    /\ UNCHANGED plugVars

\* The unit honours the cancellation and ends cancelled.
TaskCancelled(u) ==
    /\ task[u].state = "pending"
    /\ cancelReq[u]
    /\ task' = [task EXCEPT ![u] = [state |-> "cancelled", result |-> None]]
    /\ UNCHANGED <<cancelReq, wrap, log, run>>
    /\ UNCHANGED plugVars

\* handle_task resumes from "await task".
HandleTaskResumes(u) ==
    /\ wrap[u].pc = "awaiting"
    /\ task[u].state \in Terminal
    /\ LET h == HandleTask(task[u], u) IN
        /\ wrap' = [wrap EXCEPT ![u] = [pc |-> h.pc, ret |-> h.ret]]
        /\ log' = log \o h.logs
    /\ UNCHANGED <<task, cancelReq, run>>
    /\ UNCHANGED plugVars

\* run resumes from "await asyncio.gather(*tasks)".
GatherEnds ==
    /\ run = "gathering"
    /\ Gather(wrap) # "gathering"
    /\ run' = Gather(wrap)
    /\ UNCHANGED <<task, cancelReq, wrap, log>>
    /\ UNCHANGED plugVars

SupNext ==
    \/ \E u \in Units, r \in Results : TaskCompletes(u, r)
    \/ \E u \in Units : TaskFails(u)
    \/ \E u \in Units : CancelRequested(u)
    \/ \E u \in Units : TaskCancelled(u)
    \/ \E u \in Units : HandleTaskResumes(u)
    \/ GatherEnds

\* ---- claims about the supervisor (checked under SpecSup) ----

Handled(u) == wrap[u].pc # "awaiting"

LogHas(line) == \E i \in 1 .. Len(log) : log[i] = line

\* C1: when a unit has ended in failure, no sibling is cancelled or abandoned
\* because of it: run is still gathering while a sibling is pending, that
\* sibling is still awaited by its own handle_task, it can still reach each
\* of its terminal states, and a sibling ends cancelled only if somebody
\* outside asked for it.
C1_FailureSparesSiblings ==
    \A u \in Units : task[u].state = "failed" =>
        \A v \in Units \ {u} :
            /\ task[v].state = "pending" =>
                /\ run = "gathering"
                /\ wrap[v] = Awaiting
                /\ ENABLED TaskFails(v)
                /\ \A r \in Results : ENABLED TaskCompletes(v, r)
            /\ task[v].state = "cancelled" => cancelReq[v]
            /\ (task[v].state \in Terminal /\ ~Handled(v)) => ENABLED HandleTaskResumes(v)

C1_Witness ==
    \E u \in Units, v \in Units, w \in Units :
        /\ task[u].state = "failed" /\ wrap[u].pc = "returned"
        /\ task[v].state = "pending"
        /\ task[w].state = "done" /\ wrap[w].pc = "returned"
        /\ LogHas(<<"error", "failed", u>>)

\* C2: handle_task never raises: it returns the unit's result on completion
\* and None, after logging, on cancellation and on failure; so run never
\* sees an error from gather, and once every unit has been handled gather
\* returns.
C2_HandleTaskAbsorbs ==
    /\ \A u \in Units :
        /\ wrap[u].pc # "raised"
        /\ wrap[u].pc = "returned" =>
            /\ task[u].state \in Terminal
            /\ task[u].state = "done" => wrap[u].ret = task[u].result
            /\ task[u].state = "cancelled" =>
                 wrap[u].ret = None /\ LogHas(<<"info", "cancelled", u>>)
            /\ task[u].state = "failed" =>
                 wrap[u].ret = None /\ LogHas(<<"error", "failed", u>>)
                                    /\ LogHas(<<"error", "traceback", u>>)
    /\ run # "raised"
    /\ (\A u \in Units : task[u].state \in Terminal /\ Handled(u)) =>
            (run = "returned" \/ (ENABLED GatherEnds /\ Gather(wrap) = "returned"))

C2_Witness ==
    /\ run = "returned"
    /\ \E u \in Units : task[u].state = "failed"
    /\ \E u \in Units : task[u].state = "cancelled"
    /\ \E u \in Units : task[u].state = "done" /\ wrap[u].ret \in Results

\* C3: run returns from gather only when every unit is terminal; a unit that
\* never ends keeps run gathering, and every sibling can still end and be
\* handled.
C3_ReturnsOnlyWhenAllTerminal ==
    /\ run = "returned" => \A u \in Units : task[u].state \in Terminal
    /\ \A u \in Units : task[u].state = "pending" =>
        /\ run = "gathering"
        /\ ~ENABLED GatherEnds
        /\ \A v \in Units \ {u} :
            /\ task[v].state = "pending" => ENABLED TaskFails(v)
            /\ (task[v].state \in Terminal /\ ~Handled(v)) => ENABLED HandleTaskResumes(v)

C3_Witness ==
    \E u \in Units :
        /\ task[u].state = "pending"
        /\ run = "gathering"
        /\ \A v \in Units \ {u} : task[v].state \in Terminal /\ wrap[v].pc = "returned"

-----------------------------------------------------------------------------
(***************************************************************************)
(*                           THE PLUGIN MANAGER                            *)
(***************************************************************************)

\* The plugin directories the store may hold.
Dirs == {"a", "b"}

DirBefore(x, y) == x = "a" /\ y = "b"

\* The names a plugin's info() may declare: a directory's own name, or one
\* that is no directory's.
Names == Dirs \cup {"x"}

\* get_plugin_store_path looks for three store directories, get_plugin_modules
\* for the first two only.  storeRoot is the first of them that exists;
\* "QQChannelChatGPT/addons/plugins" is treated by both functions exactly as
\* "addons/plugins" is, which stands for the two.
Roots == {"addons/plugins", "AstrBot/addons/plugins", "none"}

\* Which entry file a plugin directory holds: main.py, <d>.py, or neither.
Layouts == {"main", "own", "none"}

\* What the entry module of a plugin directory is: a plugin class whose
\* info() is a complete dict declaring the directory's name (ok_self) or "x"
\* (ok_x); or code whose load fails (bad).
OkCodes == {"ok_self", "ok_x"}
Codes == OkCodes \cup {"bad"}

\* How the load of bad code fails, each time it runs:
\*   nover    info() returns a dict without "version"
\*   list     info() returns a list holding the four keys
\*   raise    info() raises
\*   nocls    the module has no class named *plugin or main
\*   ctor     the plugin class raises when it is instantiated
FailModes == {"nover", "list", "raise", "nocls", "ctor"}

\* What loaded code does: itself when it is good, the drawn failure when bad.
Behaviour(code, mode) == IF code = "bad" THEN mode ELSE code

RequiredKeys == {"name", "desc", "version", "author"}

NoDir == [exists |-> FALSE, layout |-> "none", code |-> "none"]

\* A directory without an entry file: it has no entry module.
NoEntryDir == [exists |-> TRUE, layout |-> "none", code |-> "none"]

\* The contents a clone or pull of plugin d's repository can bring: some
\* revision of its entry file (named ef), or a tree without an entry file.
DirContents(ef) ==
    {[exists |-> TRUE, layout |-> ef, code |-> c] : c \in Codes} \cup {NoEntryDir}

\* sys.modules holds, per plugin directory d, the modules addons.plugins.d.main
\* and addons.plugins.d.d: the code each was last executed from, or "none".
NoMods == [main |-> "none", own |-> "none"]

\* get_classes(p_name, module): the names of the module's plugin classes, at
\* most the first one.
get_classes(beh) ==
    IF beh = "nocls" THEN << >> ELSE << "Plugin" >>

\* obj.info() of a plugin of behaviour `code` in directory d: the value it
\* returns (its shape, the keys it holds and the name it declares), or that
\* it raises.
InfoOf(code, d) ==
    CASE code = "ok_self" -> [raises |-> FALSE, shape |-> "dict", keys |-> RequiredKeys, name |-> d]
      [] code = "ok_x"    -> [raises |-> FALSE, shape |-> "dict", keys |-> RequiredKeys, name |-> "x"]
      [] code = "nover"   -> [raises |-> FALSE, shape |-> "dict",
                              keys |-> RequiredKeys \ {"version"}, name |-> "x"]
      [] code = "list"    -> [raises |-> FALSE, shape |-> "list", keys |-> RequiredKeys, name |-> None]
      [] OTHER            -> [raises |-> TRUE, shape |-> None, keys |-> {}, name |-> None]

\* get_modules(path): one descriptor {pname, module} per subdirectory that
\* holds main.py or <d>.py.
ModuleOf(d, dk) ==
    IF dk[d].layout = "main" THEN "main" ELSE d

get_modules(dk) ==
    {d \in Dirs : dk[d].exists /\ dk[d].layout \in {"main", "own"}}

\* get_plugin_modules(): None when neither of the two store directories it
\* knows exists, else the descriptors of the one that does.
StoreSeenByReload(root) ==
    root = "addons/plugins"

\* get_plugin_store_path(): raises FileNotFoundError when no store exists.
StoreFound(root) == root # "none"

\* ---- plugin_reload ----

EmptyReg == [n \in {} |-> None]

RegPut(reg, k, e) == [n \in DOMAIN reg \cup {k} |-> IF n = k THEN e ELSE reg[n]]
RegDel(reg, k) == [n \in DOMAIN reg \ {k} |-> reg[n]]

\* The identity of a plugin object, as far as one call can tell: an object
\* the call built ("now") is none of those that existed before it.  Between
\* calls every registered object is one that existed before.
NewObject(code) == [built |-> "now", code |-> code]

Settle(reg) == [n \in DOMAIN reg |-> [reg[n] EXCEPT !.clsobj.built = "before"]]

ModKey(p) == IF p = "main" THEN "main" ELSE "own"

\* Line 85: whether the descriptor's module is (re)loaded in this call.
ShouldLoad(p, reg, target, all) ==
    p \notin DOMAIN reg \/ p = target \/ all

\* Lines 93-98: whether info() passes validation: "incomplete" when one of
\* the four keys is not in it, "bad_format" when it is not a dict.
ValidateInfoNoVersion(info) ==
    IF ~({"name", "desc", "author"} \subseteq info.keys) THEN "incomplete"
    ELSE IF info.shape # "dict" THEN "bad_format"
    ELSE "valid"

ValidateInfo(info) ==
    IF ~(RequiredKeys \subseteq info.keys) THEN "incomplete"
    ELSE IF info.shape # "dict" THEN "bad_format"
    ELSE "valid"

\* A failed load: one line is added to fail_rec and the loop goes on.
RecordFailureSilently(st, d, line) ==
    [st EXCEPT !.out = Append(@, [dir |-> d, res |-> "failed", why |-> line[1]])]

RecordFailure(st, d, line) ==
    [st EXCEPT !.fail = Append(@, line),
               !.out = Append(@, [dir |-> d, res |-> "failed", why |-> line[1]])]

\* The body of the loop of plugin_reload for the descriptor of directory d
\* (lines 82-111); st carries cached_plugins, sys.modules, fail_rec and, per
\* processed descriptor, what became of it.
LoadOne(st, d, dk, target, all, modes) ==
    LET p == ModuleOf(d, dk)
        key == ModKey(p)
    IN
    IF ~ShouldLoad(p, st.reg, target, all)
    THEN [st EXCEPT !.out = Append(@, [dir |-> d, res |-> "skipped", why |-> None])]
    ELSE
        LET imported == IF st.mods[d][key] # "none" THEN st.mods[d][key] ELSE dk[d].code
            code == IF p \in DOMAIN st.reg THEN dk[d].code ELSE imported
            st1 == [st EXCEPT !.mods[d][key] = code]
            beh == Behaviour(code, modes[d])
            cls == get_classes(beh)
            info == InfoOf(beh, d)
        IN
        IF Len(cls) = 0 \/ beh = "ctor" THEN RecordFailure(st1, d, <<"load_error", p>>)
        ELSE IF info.raises THEN RecordFailure(st1, d, <<"info_call_failed", p>>)
        ELSE IF ValidateInfo(info) = "incomplete"
             THEN RecordFailure(st1, d, <<"info_incomplete", p>>)
        ELSE IF ValidateInfo(info) = "bad_format"
             THEN RecordFailure(st1, d, <<"info_bad_format", p>>)
        ELSE [st1 EXCEPT
                !.reg = RegPut(@, info.name,
                    [module |-> <<d, key>>,
                     clsobj |-> NewObject(code),
                     info |-> [shape |-> info.shape, keys |-> info.keys, name |-> info.name],
                     name |-> info.name,
                     root_dir_name |-> d]),
                !.out = Append(@, [dir |-> d, res |-> "loaded", why |-> None])]

\* The loop of plugin_reload over the descriptors, in the order of the listing.
RECURSIVE LoadAllStopAtFailure(_, _, _, _, _, _)
LoadAllStopAtFailure(st, order, dk, target, all, modes) ==
    IF order = << >> \/ st.fail # << >> THEN st
    ELSE LoadAllStopAtFailure(LoadOne(st, Head(order), dk, target, all, modes),
                              Tail(order), dk, target, all, modes)

RECURSIVE LoadAll(_, _, _, _, _, _)
LoadAll(st, order, dk, target, all, modes) ==
    IF order = << >> THEN st
    ELSE LoadAll(LoadOne(st, Head(order), dk, target, all, modes),
                 Tail(order), dk, target, all, modes)

\* plugin_reload(cached_plugins, target, all): (ok, err) and the registry and
\* sys.modules it leaves.  order is the order in which os.listdir lists the
\* discovered directories, root the plugin store that exists.
plugin_reload(reg, mods, dk, root, order, target, all, modes) ==
    IF ~StoreSeenByReload(root)
    THEN [ok |-> FALSE, err |-> "no_plugins_found", fail |-> << >>, out |-> << >>,
          reg |-> reg, mods |-> mods]
    ELSE
        LET st == LoadAll([reg |-> reg, mods |-> mods, fail |-> << >>, out |-> << >>],
                          order, dk, target, all, modes)
        IN [ok |-> st.fail = << >>,
            err |-> IF st.fail = << >> THEN None ELSE "fail_rec",
            fail |-> st.fail, out |-> st.out, reg |-> st.reg, mods |-> st.mods]

\* The order in which os.listdir lists the directories of S.  The order is
\* the file system's; the model takes the alphabetical one, which loses
\* nothing because the directories are interchangeable.
RECURSIVE Listing(_)
Listing(S) ==
    IF S = {} THEN << >>
    ELSE LET d == CHOOSE x \in S : \A y \in S : x = y \/ DirBefore(x, y)
         IN <<d>> \o Listing(S \ {d})

\* The failure modes bad code may show in one call: a choice per discovered
\* directory whose entry module, on disk or in sys.modules, is bad.
ModeChoices(dk, mods) ==
    LET bad == {d \in get_modules(dk) :
                    "bad" \in {dk[d].code, mods[d][ModKey(ModuleOf(d, dk))]}}
    IN {[d \in Dirs |-> IF d \in bad THEN m[d] ELSE "nover"] : m \in [bad -> FailModes]}

\* ---- remove_dir ----

\* try_cnt = 50 in remove_dir.
TryCnt == 50

\* How many deletion attempts of one remove_dir call fail with
\* PermissionError before one would succeed.
DenialChoices == {0, 1, TryCnt - 1, TryCnt}

\* The loop making one attempt more than try_cnt allows.
RECURSIVE remove_dir_loop_once_more(_, _, _, _)
remove_dir_loop_once_more(try_cnt, exists, denials, attempts) ==
    IF try_cnt >= 0
    THEN IF ~exists THEN [ret |-> "False", attempts |-> attempts]
         ELSE IF denials = 0 THEN [ret |-> "True", attempts |-> attempts + 1]
         ELSE remove_dir_loop_once_more(try_cnt - 1, exists, denials - 1, attempts + 1)
    ELSE [ret |-> "None", attempts |-> attempts]

\* The while loop of remove_dir: what it returns ("True", "False", or "None"
\* when it falls out of the loop) and how many times it called rmtree.
RECURSIVE remove_dir_loop(_, _, _, _)
remove_dir_loop(try_cnt, exists, denials, attempts) ==
    IF try_cnt > 0
    THEN IF ~exists THEN [ret |-> "False", attempts |-> attempts]
         ELSE IF denials = 0 THEN [ret |-> "True", attempts |-> attempts + 1]
         ELSE remove_dir_loop(try_cnt - 1, exists, denials - 1, attempts + 1)
    ELSE [ret |-> "None", attempts |-> attempts]

\* remove_dir(store/d): its result and the disk it leaves.  A failed rmtree
\* may already have deleted files: `partial` says whether the entry files
\* went before the budget ran out.
remove_dir(dk, d, denials, partial) ==
    LET r == remove_dir_loop(TryCnt, dk[d].exists, denials, 0) IN
    [ret |-> r.ret,
     attempts |-> r.attempts,
     disk |-> IF r.ret = "True" THEN [dk EXCEPT ![d] = NoDir]
              ELSE IF r.ret = "None" /\ partial
                   THEN [dk EXCEPT ![d] = NoEntryDir]
              ELSE dk]

\* Python truth of remove_dir's result: None and False are both falsy.
Truthy(ret) == ret = "True"

\* ---- the administrative calls ----

Outcome(op, arg, raised, r) ==
    [op |-> op, arg |-> arg, raised |-> raised, ok |-> r.ok, fail |-> r.fail, out |-> r.out]

NoReload == [ok |-> FALSE, fail |-> << >>, out |-> << >>]

\* What a call leaves: the disk, sys.modules and the registry, and what it
\* returned or raised.
Left(dk, mods, reg, outcome) ==
    [disk |-> dk, mods |-> mods, reg |-> reg, res |-> outcome]

Raised(op, arg, what, dk, mods, reg) ==
    Left(dk, mods, reg, Outcome(op, arg, what, NoReload))

Apply(r) ==
    /\ disk' = r.disk
    /\ sysmods' = r.mods
    /\ registry' = Settle(r.reg)
    /\ UNCHANGED <<storeRoot, entryFile>>
    /\ UNCHANGED discVars
    /\ UNCHANGED supVars

\* What the calls of a set leave, whatever they returned.
Leaves(results) == {[disk |-> r.disk, mods |-> r.mods, reg |-> r.reg] : r \in results}

\* plugin_reload as the last step of a call `op`: the call raises when the
\* reload reports a failure.
ReloadWithin(op, arg, reg, mods, dk, root, target, all) ==
    {LET r == plugin_reload(reg, mods, dk, root, Listing(get_modules(dk)), target, all, modes)
     IN Left(dk, r.mods, r.reg,
             Outcome(op, arg, IF r.ok \/ op = "reload" THEN None ELSE "reload_failed", r)) :
        modes \in ModeChoices(dk, mods)}

\* plugin_reload(cached_plugins, target, all) called on its own.
Reload(target, all) ==
    \E r \in Leaves(ReloadWithin("reload", None, registry, sysmods, disk, storeRoot,
                                  target, all)) :
        Apply(r)

\* The dependency failure raised only once the plugins have been reloaded.
DepsAfterReload(op, arg, reg, mods, dk, root, target) ==
    LET after == ReloadWithin(op, arg, reg, mods, dk, root, target, FALSE) IN
    {Left(dk, r.mods, r.reg, [r.res EXCEPT !.raised = "deps_failed"]) : r \in after}
        \cup after

\* Lines 131-136 and 155-160: the dependency manifest, if the tree has one,
\* is installed (pip may fail), then the plugins are reloaded.
DepsThenReload(op, arg, reg, mods, dk, root, target) ==
    {Raised(op, arg, "deps_failed", dk, mods, reg)}
        \cup ReloadWithin(op, arg, reg, mods, dk, root, target, FALSE)

\* Lines 128-130 of install_plugin: the disk as it can be when
\* Repo.clone_from is called, remove_dir having been called (its result is
\* not looked at) if the directory existed.
DiskAtClone(dk, d) ==
    IF dk[d].exists
    THEN {remove_dir(dk, d, k, partial).disk : k \in DenialChoices, partial \in BOOLEAN}
    ELSE {dk}

\* install_plugin(repo_url, cached_plugins), d being the directory name
\* derived from repo_url and ef the entry file of the repository.
install_plugin(reg, mods, dk, root, d, ef) ==
    IF ~StoreFound(root)
    THEN {Raised("install", d, "store_not_found", dk, mods, reg)}
    ELSE
        LET removed == DiskAtClone(dk, d)
            After(dk1) ==
                IF dk1[d].exists
                THEN \* git refuses to clone into a directory that is not empty
                     {Raised("install", d, "clone_failed", dk1, mods, reg)}
                ELSE {Raised("install", d, "clone_failed", dk1, mods, reg)}
                     \cup UNION {DepsThenReload("install", d, reg, mods,
                                                [dk1 EXCEPT ![d] = content], root, d) :
                                    content \in DirContents(ef)}
        IN UNION {After(dk1) : dk1 \in removed}

Install(d) ==
    \E r \in Leaves(install_plugin(registry, sysmods, disk, storeRoot, d, entryFile[d])) :
        Apply(r)

\* update_plugin(plugin_name, cached_plugins).
update_plugin(reg, mods, dk, root, name, efs) ==
    IF name \notin DOMAIN reg
    THEN {Raised("update", name, "not_found", dk, mods, reg)}
    ELSE IF ~StoreFound(root)
    THEN {Raised("update", name, "store_not_found", dk, mods, reg)}
    ELSE
        LET d == reg[name].root_dir_name IN
        IF ~dk[d].exists
        THEN {Raised("update", name, "repo_error", dk, mods, reg)}
        ELSE {Raised("update", name, "pull_failed", dk, mods, reg)}
             \cup UNION {DepsThenReload("update", name, reg, mods,
                                        [dk EXCEPT ![d] = content], root, name) :
                            content \in DirContents(efs[d])}

Update(name) ==
    \E r \in Leaves(update_plugin(registry, sysmods, disk, storeRoot, name, entryFile)) :
        Apply(r)

\* uninstall_plugin(plugin_name, cached_plugins): what it raises and the
\* registry and disk it leaves, the deletion failing `denials` times.
UninstallDeletingFirst(reg, dk, root, name, denials, partial) ==
    IF name \notin DOMAIN reg
    THEN [raised |-> "not_found", reg |-> reg, disk |-> dk]
    ELSE IF ~StoreFound(root)
    THEN [raised |-> "store_not_found", reg |-> reg, disk |-> dk]
    ELSE
        LET rm == remove_dir(dk, reg[name].root_dir_name, denials, partial) IN
        IF ~Truthy(rm.ret)
        THEN [raised |-> "delete_failed", reg |-> reg, disk |-> rm.disk]
        ELSE [raised |-> None, reg |-> RegDel(reg, name), disk |-> rm.disk]

uninstall_plugin(reg, dk, root, name, denials, partial) ==
    IF name \notin DOMAIN reg
    THEN [raised |-> "not_found", reg |-> reg, disk |-> dk]
    ELSE IF ~StoreFound(root)
    THEN [raised |-> "store_not_found", reg |-> reg, disk |-> dk]
    ELSE
        LET reg1 == RegDel(reg, name)
            rm == remove_dir(dk, reg[name].root_dir_name, denials, partial)
        IN [raised |-> IF Truthy(rm.ret) THEN None ELSE "delete_failed",
            reg |-> reg1, disk |-> rm.disk]

Uninstall(name) ==
    \E r \in {LET u == uninstall_plugin(registry, disk, storeRoot, name, denials, partial)
              IN [disk |-> u.disk, mods |-> sysmods, reg |-> u.reg] :
                    denials \in DenialChoices, partial \in BOOLEAN} :
        Apply(r)

\* The targets plugin_reload is called with: none, or a name.
Targets == {None} \cup Names

\* The plugin manager, the supervisor not started.
Init ==
    /\ storeRoot \in Roots
    /\ entryFile \in [Dirs -> {"main", "own"}]
    /\ disk \in [Dirs -> {NoDir} \cup DirContents("main") \cup DirContents("own")]
    /\ \A d \in Dirs : disk[d] \in {NoDir} \cup DirContents(entryFile[d])
    /\ storeRoot = "none" => disk = [d \in Dirs |-> NoDir]
    /\ sysmods = [d \in Dirs |-> NoMods]
    /\ registry = EmptyReg
    /\ tree = << >>
    /\ dirs = << >>
    /\ modules = << >>
    /\ task = [u \in Units |-> PendingTask]
    /\ cancelReq = [u \in Units |-> FALSE]
    /\ wrap = [u \in Units |-> Awaiting]
    /\ log = << >>
    /\ run = "gathering"

Next ==
    \/ \E target \in Targets : Reload(target, FALSE)
    \/ Reload(None, TRUE)
    \/ \E d \in Dirs : Install(d)
    \/ \E name \in Names : Update(name)
    \/ \E name \in Names : Uninstall(name)

Spec == Init /\ [][Next]_vars

\* ---- claims about the plugin manager (checked under Spec) ----

\* What plugin_reload(cached_plugins, target, all) does in the current state,
\* bad code failing as `modes` says.
ReloadNow(target, all, modes) ==
    plugin_reload(registry, sysmods, disk, storeRoot, Listing(get_modules(disk)),
                  target, all, modes)

\* The calls plugin_reload can be given.
ReloadArgs == (Targets \X {FALSE}) \cup {<<None, TRUE>>}

FailedIn(out) == {i \in DOMAIN out : out[i].res = "failed"}

EntriesOf(reg, d) == {n \in DOMAIN reg : reg[n].root_dir_name = d}

\* C4: uninstall of a registered name removes the registry entry before the
\* directory is deleted: whether it returns or raises (the deletion failed,
\* or the directory was missing), the name is no registry key afterwards and
\* every other entry is untouched.
C4_UninstallRemovesEntryFirst ==
    \A name \in DOMAIN registry, denials \in DenialChoices, partial \in BOOLEAN :
        LET r == uninstall_plugin(registry, disk, storeRoot, name, denials, partial) IN
        /\ r.raised \in {None, "delete_failed"}
        /\ name \notin DOMAIN r.reg
        /\ r.reg = RegDel(registry, name)
        /\ r.raised = None <=> (disk[registry[name].root_dir_name].exists /\ denials < TryCnt)

C4_Witness ==
    \E name \in DOMAIN registry, other \in DOMAIN registry :
        LET exhausted == uninstall_plugin(registry, disk, storeRoot, name, TryCnt, FALSE)
            missing == uninstall_plugin(registry, disk, storeRoot, other, 0, FALSE)
        IN
        /\ disk[registry[name].root_dir_name].exists
        /\ exhausted.raised = "delete_failed"
        /\ exhausted.disk[registry[name].root_dir_name].exists
        /\ name \notin DOMAIN exhausted.reg
        /\ ~disk[registry[other].root_dir_name].exists
        /\ missing.raised = "delete_failed"
        /\ other \notin DOMAIN missing.reg

\* C5: every registry entry holds an info that is a dict with the four keys
\* name, desc, version and author, and is stored under the name its info
\* declares, which is also its "name" field.
C5_RegistryWellFormed ==
    \A n \in DOMAIN registry :
        /\ registry[n].info.shape = "dict"
        /\ RequiredKeys \subseteq registry[n].info.keys
        /\ registry[n].name = n
        /\ registry[n].info.name = n

C5_Witness ==
    /\ "x" \in DOMAIN registry
    /\ \E d \in Dirs : d \in DOMAIN registry
    /\ \E d \in Dirs : "bad" \in {sysmods[d].main, sysmods[d].own}

\* C6 (as claimed): after a reload has processed an extension whose info()
\* lacks a key, has the wrong shape or raises, no registry entry refers to
\* that extension's directory, whatever the registry held before.
C6_BadInfoLeavesNoEntry ==
    \A args \in ReloadArgs :
        \A modes \in ModeChoices(disk, sysmods) :
            LET r == ReloadNow(args[1], args[2], modes) IN
            \A i \in FailedIn(r.out) :
                r.out[i].why \in {"info_incomplete", "info_bad_format", "info_call_failed"}
                    => EntriesOf(r.reg, r.out[i].dir) = {}

\* Every discovered extension has a registry entry.
AllLoaded ==
    /\ StoreSeenByReload(storeRoot)
    /\ get_modules(disk) # {}
    /\ \A d \in get_modules(disk) : EntriesOf(registry, d) # {}

\* C7 (as claimed): a reload without target and with all=False, when every
\* extension is already loaded, re-imports and re-instantiates nothing: it
\* reports no failure and leaves the registry and the modules as they were,
\* and so does a second one after it.
C7_PlainReloadIsNoOp ==
    AllLoaded =>
        \A modes \in ModeChoices(disk, sysmods) :
            LET r1 == ReloadNow(None, FALSE, modes)
                r2 == plugin_reload(Settle(r1.reg), r1.mods, disk, storeRoot,
                                    Listing(get_modules(disk)), None, FALSE, modes)
            IN
            /\ r1.ok
            /\ r1.reg = registry
            /\ r1.mods = sysmods
            /\ r2.reg = Settle(r1.reg)

\* C8 (as claimed): when no extension can be discovered, because no store is
\* seen or because the store holds no qualifying directory, reload returns
\* success = false with the "no plugins found" diagnostic.
C8_NothingFoundIsFailure ==
    (~StoreSeenByReload(storeRoot) \/ get_modules(disk) = {}) =>
        \A args \in ReloadArgs :
            \A modes \in ModeChoices(disk, sysmods) :
                LET r == ReloadNow(args[1], args[2], modes) IN
                ~r.ok /\ r.err = "no_plugins_found"

\* C9: a failed load stops nothing and touches no sibling: every discovered
\* descriptor is processed, in order, and the registry the reload leaves, and
\* every other directory's modules, are what they would be were the failing
\* extension's directory not in the store.
C9_FailureSparesTheBatch ==
    StoreSeenByReload(storeRoot) =>
        \A args \in ReloadArgs :
            \A modes \in ModeChoices(disk, sysmods) :
                LET r == ReloadNow(args[1], args[2], modes) IN
                /\ [i \in DOMAIN r.out |-> r.out[i].dir] = Listing(get_modules(disk))
                /\ \A i \in FailedIn(r.out) :
                    LET f == r.out[i].dir
                        without == [disk EXCEPT ![f] = NoDir]
                        r0 == plugin_reload(registry, sysmods, without, storeRoot,
                                            Listing(get_modules(without)),
                                            args[1], args[2], modes)
                    IN
                    /\ r.reg = r0.reg
                    /\ \A d \in Dirs \ {f} : r.mods[d] = r0.mods[d]
                    /\ \A j \in DOMAIN r.out : r.out[j].dir # f =>
                            \E k \in DOMAIN r0.out : r0.out[k] = r.out[j]

C9_Witness ==
    \E modes \in ModeChoices(disk, sysmods) :
        LET r == ReloadNow(None, FALSE, modes) IN
        /\ Len(r.out) = 2
        /\ r.out[1].res = "failed"
        /\ r.out[2].res = "loaded"
        /\ EntriesOf(r.reg, r.out[2].dir) # {}
        \* an earlier batch went the same way: the failing module is imported
        \* and unregistered, its sibling is registered
        /\ sysmods[r.out[1].dir] # NoMods
        /\ EntriesOf(registry, r.out[1].dir) = {}
        /\ EntriesOf(registry, r.out[2].dir) # {}

\* C10: when at least one extension is discovered, reload returns success
\* exactly when no processed extension failed, and otherwise its diagnostics
\* hold exactly one line per failed extension, in order, naming its module,
\* and none for an extension that loaded or was skipped.
C10_OneDiagnosticPerFailure ==
    (StoreSeenByReload(storeRoot) /\ get_modules(disk) # {}) =>
        \A args \in ReloadArgs :
            \A modes \in ModeChoices(disk, sysmods) :
                LET r == ReloadNow(args[1], args[2], modes)
                    failed == SelectSeq(r.out, LAMBDA o : o.res = "failed")
                IN
                /\ r.ok <=> failed = << >>
                /\ r.ok => r.err = None /\ r.fail = << >>
                /\ ~r.ok => r.err = "fail_rec"
                /\ r.fail = [i \in DOMAIN failed |->
                                <<failed[i].why, ModuleOf(failed[i].dir, disk)>>]

C10_Witness ==
    \E modes \in ModeChoices(disk, sysmods) :
        LET r == ReloadNow(None, FALSE, modes) IN
        /\ Len(r.out) = 2
        /\ r.out[1].res = "failed" /\ r.out[1].why = "load_error"
        /\ r.out[2].res = "failed" /\ r.out[2].why = "info_incomplete"
        /\ ~r.ok
        /\ Len(r.fail) = 2
        \* both modules were imported, and failed, in an earlier reload
        /\ \A d \in Dirs : sysmods[d] # NoMods /\ EntriesOf(registry, d) = {}

\* What install_plugin(url of d) and update_plugin(name) can do in the
\* current state.
InstallNow(d) == install_plugin(registry, sysmods, disk, storeRoot, d, entryFile[d])

UpdateNow(name) == update_plugin(registry, sysmods, disk, storeRoot, name, entryFile)

\* Whether a call's reload processed directory d with result res.
Processed(outcome, d, res) ==
    \E i \in DOMAIN outcome.out : outcome.out[i].dir = d /\ outcome.out[i].res = res

\* C11 (as claimed): install loads the newly fetched target only: an install
\* whose reload loaded the target does not raise, whatever else is in the
\* store, and an install that raises for its reload leaves no entry for the
\* target's directory.
C11_InstallLoadsTargetOnly ==
    \A d \in Dirs :
        \A r \in InstallNow(d) :
            /\ Processed(r.res, d, "loaded") => r.res.raised = None
            /\ r.res.raised = "reload_failed" => EntriesOf(r.reg, d) = {}

\* C12 (as claimed): after update(name) has succeeded, the pulled revision
\* holding a valid plugin, the extension's registry entry holds an instance
\* built in this call from the pulled code, and its module holds that code,
\* whichever entry file the directory has and whichever name it declares.
C12_UpdateBuildsFromPulledRevision ==
    \A name \in DOMAIN registry :
        \A r \in UpdateNow(name) :
            LET d == registry[name].root_dir_name IN
            (r.res.raised = None /\ r.disk[d].code \in OkCodes) =>
                \E n \in EntriesOf(r.reg, d) :
                    /\ r.reg[n].clsobj = NewObject(r.disk[d].code)
                    /\ r.mods[d][r.reg[n].module[2]] = r.disk[d].code

\* C13 (as claimed): when the directory an install derives already exists,
\* the clone is not started before that directory is gone, whatever number
\* of deletion attempts is denied.
C13_CloneAfterRemovalCompleted ==
    StoreFound(storeRoot) =>
        \A d \in Dirs :
            disk[d].exists => \A dk1 \in DiskAtClone(disk, d) : ~dk1[d].exists

\* C14: update and uninstall of a name that is no registry key raise "not
\* found" and leave the registry, the modules and the disk as they were; an
\* install or update whose dependency installation fails raises with no
\* descriptor processed, the registry and the modules as they were.
C14_FatalLeavesRegistry ==
    /\ \A name \in Names \ DOMAIN registry :
        /\ \A r \in UpdateNow(name) :
            /\ r.res.raised = "not_found"
            /\ r.reg = registry /\ r.mods = sysmods /\ r.disk = disk
        /\ \A denials \in DenialChoices, partial \in BOOLEAN :
            LET u == uninstall_plugin(registry, disk, storeRoot, name, denials, partial) IN
            u.raised = "not_found" /\ u.reg = registry /\ u.disk = disk
    /\ \A d \in Dirs :
        \A r \in InstallNow(d) :
            r.res.raised = "deps_failed" =>
                r.reg = registry /\ r.mods = sysmods /\ r.res.out = << >>
    /\ \A name \in DOMAIN registry :
        \A r \in UpdateNow(name) :
            r.res.raised = "deps_failed" =>
                r.reg = registry /\ r.mods = sysmods /\ r.res.out = << >>

\* A registry that earlier calls filled, a name that is not in it, and an
\* install and an update whose dependencies fail on a tree that a reload
\* would have registered anew.
C14_Witness ==
    /\ registry # EmptyReg
    /\ Names \ DOMAIN registry # {}
    /\ \E d \in Dirs :
        /\ EntriesOf(registry, d) = {}
        /\ \E r \in InstallNow(d) :
            r.res.raised = "deps_failed" /\ r.disk[d].code \in OkCodes
    /\ \E name \in DOMAIN registry :
        \E r \in UpdateNow(name) :
            /\ r.res.raised = "deps_failed"
            /\ r.disk # disk
            /\ r.disk[registry[name].root_dir_name].code \in OkCodes

\* C15 (as claimed): remove_dir of an existing directory, every one of its
\* TryCnt deletion attempts denied, returns False.
C15_ExhaustionReturnsFalse ==
    \A d \in Dirs :
        disk[d].exists =>
            \A partial \in BOOLEAN :
                LET r == remove_dir(disk, d, TryCnt, partial) IN
                r.attempts = TryCnt => r.ret = "False"

\* C16: the loop of remove_dir, however many of its deletion attempts are
\* denied, calls rmtree at most TryCnt times and returns True exactly when
\* one of these attempts succeeds; remove_dir then leaves the directory
\* gone; and for a path that does not exist it returns False, having
\* attempted nothing and changed nothing.
C16_RemoveDirBounded ==
    /\ \A exists \in {disk[d].exists : d \in Dirs}, k \in 0..(TryCnt + 1) :
        LET r == remove_dir_loop(TryCnt, exists, k, 0) IN
        /\ r.ret \in {"True", "False", "None"}
        /\ r.attempts <= TryCnt
        /\ r.ret = "True" <=> (exists /\ k < TryCnt)
        /\ r.ret = "True" => r.attempts = k + 1
        /\ r.ret # "True" /\ exists => r.attempts = TryCnt
        /\ ~exists => r.ret = "False" /\ r.attempts = 0
    /\ \A d \in Dirs, k \in DenialChoices, partial \in BOOLEAN :
        LET r == remove_dir(disk, d, k, partial) IN
        /\ r.ret = "True" <=> ~r.disk[d].exists /\ disk[d].exists
        /\ ~disk[d].exists => r.ret = "False" /\ r.attempts = 0 /\ r.disk = disk

\* A directory that was loaded from and has been removed since, for which
\* remove_dir returns False; and one that exists, which the last allowed
\* attempt removes.
C16_Witness ==
    /\ \E d \in Dirs :
        /\ ~disk[d].exists /\ sysmods[d] # NoMods
        /\ remove_dir(disk, d, 0, FALSE).ret = "False"
    /\ \E d \in Dirs :
        LET r == remove_dir(disk, d, TryCnt - 1, TRUE) IN
        disk[d].exists /\ r.ret = "True" /\ r.attempts = TryCnt

\* C18 (as claimed): no two registry entries refer to the same plugin
\* directory.
C18_OneEntryPerDirectory ==
    \A d \in Dirs : Cardinality(EntriesOf(registry, d)) <= 1

\* C19 (as claimed): once uninstall(name) has removed an extension from the
\* registry, having deleted its directory or not, neither a reload (with or
\* without target, or of all) nor the install of another directory's
\* repository nor the update of another extension enters into the registry
\* a name for the uninstalled extension's directory.
C19_UninstalledStaysOut ==
    \A name \in DOMAIN registry, denials \in DenialChoices, partial \in BOOLEAN :
        LET d == registry[name].root_dir_name
            u == uninstall_plugin(registry, disk, storeRoot, name, denials, partial)
            kept == EntriesOf(u.reg, d)
        IN
        u.raised \in {None, "delete_failed"} =>
            /\ \A args \in ReloadArgs :
                \A modes \in ModeChoices(u.disk, sysmods) :
                    EntriesOf(plugin_reload(u.reg, sysmods, u.disk, storeRoot,
                                            Listing(get_modules(u.disk)),
                                            args[1], args[2], modes).reg, d) \subseteq kept
            /\ \A e \in Dirs \ {d} :
                \A r \in install_plugin(u.reg, sysmods, u.disk, storeRoot, e, entryFile[e]) :
                    EntriesOf(r.reg, d) \subseteq kept
            /\ \A other \in DOMAIN u.reg :
                u.reg[other].root_dir_name # d =>
                    \A r \in update_plugin(u.reg, sysmods, u.disk, storeRoot, other, entryFile) :
                        EntriesOf(r.reg, d) \subseteq kept

\* C20 (as claimed): the directory of every registry entry exists.
C20_EntryHasStorage ==
    \A n \in DOMAIN registry : disk[registry[n].root_dir_name].exists

-----------------------------------------------------------------------------
(***************************************************************************)
(*                    get_modules ON A DIRECTORY OF FILES                  *)
(***************************************************************************)

\* The entries os.listdir(path) may return: each is a plain file or a
\* directory; one directory is itself named "main".
StoreEntries == {"a", "b", "c", "main"}

\* d + ".py"
OwnFile(d) ==
    CASE d = "a" -> "a.py"
      [] d = "b" -> "b.py"
      [] d = "c" -> "c.py"
      [] d = "main" -> "main.py"

\* The files a subdirectory d may hold.
FileNames(d) == {"main.py", OwnFile(d), "README.md"}

PlainFile == [kind |-> "file", files |-> {}]

Trees ==
    [StoreEntries -> {PlainFile}
        \cup {[kind |-> "dir", files |-> F] : F \in SUBSET {"main.py", "a.py", "b.py", "c.py", "README.md"}}]

\* Every order os.listdir may return the entries in.
Orders(S) ==
    {o \in [1..Cardinality(S) -> S] : \A i, j \in DOMAIN o : o[i] = o[j] => i = j}

\* Lines 38-44, <d>.py looked for before main.py.
module_str_own_first(d, files) ==
    IF OwnFile(d) \in files THEN d
    ELSE IF "main.py" \in files THEN "main"
    ELSE None

\* Lines 38-44: the module name chosen for directory d, None when the
\* directory is skipped (continue).
module_str(d, files) ==
    IF "main.py" \in files THEN "main"
    ELSE IF OwnFile(d) \in files THEN d
    ELSE None

\* One round of the loop of get_modules (lines 36-49), for the next entry.
GetModulesStep ==
    /\ dirs # << >>
    /\ LET d == Head(dirs)
           m == module_str(d, tree[d].files)
       IN modules' =
            IF tree[d].kind = "dir" /\ m # None
                /\ ("main.py" \in tree[d].files \/ OwnFile(d) \in tree[d].files)
            THEN Append(modules, [pname |-> d, module |-> m])
            ELSE modules
    /\ dirs' = Tail(dirs)
    /\ UNCHANGED <<tree, storeRoot, entryFile, disk, sysmods, registry>>
    /\ UNCHANGED supVars

\* get_modules(path) called: modules = [], dirs = os.listdir(path).
InitDiscover ==
    /\ tree \in Trees
    /\ \A d \in StoreEntries : tree[d].files \subseteq FileNames(d)
    /\ dirs \in Orders(StoreEntries)
    /\ modules = << >>
    /\ storeRoot = "addons/plugins"
    /\ entryFile = << >>
    /\ disk = << >>
    /\ sysmods = << >>
    /\ registry = << >>
    /\ task = [u \in Units |-> PendingTask]
    /\ cancelReq = [u \in Units |-> FALSE]
    /\ wrap = [u \in Units |-> Awaiting]
    /\ log = << >>
    /\ run = "gathering"

NextDiscover == GetModulesStep

SpecDiscover == InitDiscover /\ [][NextDiscover]_vars

\* The entries the loop has visited, and those that are directories holding
\* main.py or <d>.py.
Visited == StoreEntries \ {dirs[i] : i \in DOMAIN dirs}

Qualifies(d) ==
    /\ tree[d].kind = "dir"
    /\ "main.py" \in tree[d].files \/ OwnFile(d) \in tree[d].files

\* C17: get_modules yields one descriptor for exactly the visited entries
\* that are directories holding main.py or <d>.py, its module being "main"
\* whenever main.py is there (also next to <d>.py) and the directory's name
\* otherwise; directories with neither file, and plain files, yield nothing.
C17_DiscoverQualifyingDirs ==
    /\ \A d \in Visited :
        Cardinality({i \in DOMAIN modules : modules[i].pname = d})
            = IF Qualifies(d) THEN 1 ELSE 0
    /\ \A i \in DOMAIN modules :
        LET d == modules[i].pname IN
        /\ d \in Visited
        /\ "main.py" \in tree[d].files => modules[i].module = "main"
        /\ "main.py" \notin tree[d].files => modules[i].module = d

\* The call has returned; a held main.py and a.py and got module "main", b
\* held b.py and no main.py, c held neither, and "main" is a plain file.
C17_Witness ==
    /\ dirs = << >>
    /\ {"main.py", "a.py"} \subseteq tree["a"].files
    /\ tree["b"] = [kind |-> "dir", files |-> {"b.py", "README.md"}]
    /\ tree["c"] = [kind |-> "dir", files |-> {"README.md"}]
    /\ tree["main"] = PlainFile
    /\ {modules[i] : i \in DOMAIN modules}
            = {[pname |-> "a", module |-> "main"], [pname |-> "b", module |-> "b"]}

\* The supervisor, the plugin manager idle.
InitSup ==
    /\ task = [u \in Units |-> PendingTask]
    /\ cancelReq = [u \in Units |-> FALSE]
    /\ wrap = [u \in Units |-> Awaiting]
    /\ log = << >>
    /\ run = "gathering"
    /\ storeRoot = "none"
    /\ entryFile = << >>
    /\ disk = << >>
    /\ sysmods = << >>
    /\ registry = << >>
    /\ tree = << >>
    /\ dirs = << >>
    /\ modules = << >>

SpecSup == InitSup /\ [][SupNext]_vars
=============================================================================
